---- MODULE Spec2Model ----
(***************************************************************************)
(* NEWS_FEED: handler.py (the script) and UpdatN.py (Website,              *)
(* NewsExtractor).  One run of the script is: connect to the store and     *)
(* ping it, build a NewsExtractor, call feed (three Website fetches, the   *)
(* marker test, concatenation and truncation, a second NewsExtractor,      *)
(* extract_news), then write docs/news.json and replace the collection's   *)
(* content.  The collection and the file outlive a run; everything else is *)
(* rebuilt by the next run.                                                *)
(*                                                                         *)
(* Strings that matter by their length (page texts, the combined text) are *)
(* sequences of runs [src, from, n]: n characters of the text named src,   *)
(* starting at its offset from.  Strings that matter by what they embed    *)
(* (diagnostics) are Python values whose parts are the pieces they were    *)
(* formatted from.                                                         *)
(***************************************************************************)
EXTENDS Integers, Sequences, FiniteSets, TLC

\* ------------------------------------------------------------ bounds
MaxRuns == 2
InitDocsMax == 2
ExcMsgLen == 40

\* ------------------------------------------------- program constants
MAX_CONTENT_LENGTH == 55000
SepLen == 24
MarkerLen == 18
ErrTailLen == 18
NoBodyLen == 21

Categories ==
    {"World", "Business", "Technology", "Entertainment", "Sports", "Science", "Health"}

SuccessState == "\n--- SUCCESSFULLY EXTRACTED NEWS (JSON) ---"
FailedState == "--- EXTRACTION FAILED (SEE ERROR) ---"

\* ------------------------------------------------------ run strings
Str(src, from, n) == IF n = 0 THEN <<>> ELSE <<[src |-> src, from |-> from, n |-> n]>>

RECURSIVE StrLen(_)
StrLen(s) == IF s = <<>> THEN 0 ELSE Head(s).n + StrLen(Tail(s))

Min(a, b) == IF a < b THEN a ELSE b

\* s[:k]
RECURSIVE Take(_, _)
Take(s, k) ==
    IF s = <<>> \/ k = 0 THEN <<>>
    ELSE IF Head(s).n <= k
         THEN <<Head(s)>> \o Take(Tail(s), k - Head(s).n)
         ELSE <<[Head(s) EXCEPT !.n = k]>>

\* s[p], as <<src, offset in src>>; p < StrLen(s)
RECURSIVE CharAt(_, _)
CharAt(s, p) ==
    IF p < Head(s).n THEN <<Head(s).src, Head(s).from + p>>
    ELSE CharAt(Tail(s), p - Head(s).n)

MarkerStr == Str("marker", 0, MarkerLen)
Separator == Str("sep", 0, SepLen)

\* "Failed to retrieve" in s
ContainsMarker(s) == \E i \in 1..Len(s) : s[i] = MarkerStr[1]

\* ------------------------------------------------------ Website
PageName(i) == CASE i = 0 -> "page0" [] i = 1 -> "page1" [] OTHER -> "page2"

\* What requests.get and BeautifulSoup can do with one URL: a page (with or
\* without a body, its visible text of some length, possibly quoting the words
\* "Failed to retrieve"), a RequestException, or any other exception, whose
\* message can be encoded for stdout or holds a lone surrogate.
Pages ==
    { [kind |-> "page", body |-> TRUE,  len |-> 0,     mentions |-> FALSE, msg |-> ""],
      [kind |-> "page", body |-> TRUE,  len |-> 18317, mentions |-> FALSE, msg |-> ""],
      [kind |-> "page", body |-> TRUE,  len |-> 18318, mentions |-> FALSE, msg |-> ""],
      [kind |-> "page", body |-> TRUE,  len |-> 60000, mentions |-> FALSE, msg |-> ""],
      [kind |-> "page", body |-> TRUE,  len |-> 18317, mentions |-> TRUE,  msg |-> ""],
      [kind |-> "page", body |-> FALSE, len |-> 0,     mentions |-> FALSE, msg |-> ""] }

FetchOutcomes ==
    Pages \cup
    { [kind |-> "RequestException", body |-> FALSE, len |-> ExcMsgLen, mentions |-> FALSE,
       msg |-> "error"],
      [kind |-> "Exception", body |-> FALSE, len |-> ExcMsgLen, mentions |-> FALSE,
       msg |-> "error"],
      [kind |-> "Exception", body |-> FALSE, len |-> ExcMsgLen, mentions |-> FALSE,
       msg |-> "error <U+D800>"] }

\* Website.__init__: self.text for an outcome that does not propagate.
WebsiteText(i, o) ==
    IF o.kind = "RequestException"
    THEN MarkerStr \o Str("errtail", 0, ErrTailLen) \o Str("exc", 0, o.len)
    ELSE IF ~o.body THEN Str("nobody", 0, NoBodyLen)
    ELSE IF o.mentions
         THEN MarkerStr \o Str(PageName(i), MarkerLen, o.len - MarkerLen)
         ELSE Str(PageName(i), 0, o.len)

\* Website.__init__ lets every exception but RequestException through.
WebsiteRaises(o) == o.kind = "Exception"

\* ------------------------------------------------------ Python values
\* A value of news_content / nc: its type, for a dict its keys and the keys
\* whose value is a list, for a str the pieces it was formatted from.
PyNone == [type |-> "NoneType", keys |-> {}, arrays |-> {}, parts |-> <<>>]
PyStr(parts) == [type |-> "str", keys |-> {}, arrays |-> {}, parts |-> parts]
PyList(id) == [type |-> "list", keys |-> {}, arrays |-> {}, parts |-> <<id>>]
PyDict(keys, arrays, id) == [type |-> "dict", keys |-> keys, arrays |-> arrays, parts |-> <<id>>]

\* ------------------------------------------------------ the LLM call
\* response.text values.  json.loads accepts: two answers that follow the
\* schema, a JSON object that lacks keys, one whose values are not lists, a
\* JSON array, a JSON string, a JSON string whose \ud800 escape decodes to a
\* lone surrogate.  It raises JSONDecodeError on: an answer cut off, an answer
\* cut off after half an emoji (the text itself holds a lone surrogate).  It
\* raises something else on: arrays nested deeper than the recursion limit
\* and never closed (RecursionError), the seven list-valued keys plus a number
\* of 5000 digits (ValueError, the int digits limit), and no text (TypeError).
NoText == "None"
SchemaTexts == {"news_a", "news_b"}
JsonTexts ==
    SchemaTexts \cup
    {"object_missing_keys", "object_of_scalars", "array", "quoted", "quoted \\ud800 escape"}
InvalidJsonTexts == {"cut_off_json", "cut_off_json <U+D83D>"}
OtherErrorTexts == {"deep_unclosed_arrays", "seven_keys_and_5000_digit_number", NoText}
ApiErrors ==
    {"429 RESOURCE_EXHAUSTED", "401 UNAUTHENTICATED", "connection reset", "500 INTERNAL <U+D800>"}

\* str(e) of what json.loads raises when it is not a JSONDecodeError
LoadsErrorMsg(t) ==
    CASE t = "deep_unclosed_arrays" ->
             "maximum recursion depth exceeded while decoding a JSON array from a unicode string"
      [] t = "seven_keys_and_5000_digit_number" ->
             "Exceeds the limit (4300 digits) for integer string conversion: value has 5000 digits; use sys.set_int_max_str_digits() to increase the limit"
      [] OTHER -> "the JSON object must be str, bytes or bytearray, not NoneType"

GenerateOutcomes ==
    [raises : {FALSE}, text : JsonTexts \cup InvalidJsonTexts \cup OtherErrorTexts]
    \cup [raises : {TRUE}, text : ApiErrors]

\* json.loads(t) for a t it accepts
JsonLoads(t) ==
    CASE t \in SchemaTexts -> PyDict(Categories, Categories, t)
      [] t = "object_missing_keys" -> PyDict({"World"}, {"World"}, t)
      [] t = "object_of_scalars" -> PyDict(Categories, {}, t)
      [] t = "array" -> PyList(t)
      [] t = "quoted \\ud800 escape" -> PyStr(<<"<U+D800>">>)
      [] OTHER -> PyStr(<<t>>)

\* NewsExtractor.extract_news, given what generate_content did: the inner
\* except takes JSONDecodeError alone, the outer one everything else
extract_news(o) ==
    IF o.raises
    THEN PyStr(<<"Error communicating with Gemini API: ", o.text>>)
    ELSE IF o.text \in OtherErrorTexts
    THEN PyStr(<<"Error communicating with Gemini API: ", LoadsErrorMsg(o.text)>>)
    ELSE IF o.text \in InvalidJsonTexts
    THEN PyStr(<<"Error: Model returned invalid JSON. Raw text: ", o.text>>)
    ELSE JsonLoads(o.text)

\* The pieces that hold a lone surrogate: print, on a UTF-8 stdout, raises
\* UnicodeEncodeError (a ValueError) on a string that holds one.
Unencodable ==
    {"<U+D800>", "cut_off_json <U+D83D>", "500 INTERNAL <U+D800>", "error <U+D800>"}
PrintRaises(v) == \E i \in 1..Len(v.parts) : v.parts[i] \in Unencodable

\* What a call that may raise does: it returns, or it raises an exception
\* whose message can be encoded for stdout, or one whose message cannot.
CallOutcomes == {"ok", "error", "error <U+D800>"}

\* print(f"...: {e}") inside an except clause raises UnicodeEncodeError on
\* such a message; nothing catches it there, and the process ends with a
\* traceback and status 1.
ExceptPrintRaises(msg) == msg \in Unencodable

\* ------------------------------------------------------ feed
\* What feed returns: a (state, payload) pair, or None (len 0).
NoResult == [len |-> 0, state |-> "", nc |-> PyNone]
Pair(state, nc) == [len |-> 2, state |-> state, nc |-> nc]

\* a feed that forgets its third elif
AnyFailedFirstTwo(te) == ContainsMarker(te[1]) \/ ContainsMarker(te[2])

\* the if / elif / elif over the three texts
AnyFailed(te) ==
    \/ ContainsMarker(te[1])
    \/ ContainsMarker(te[2])
    \/ ContainsMarker(te[3])

CombinedText(te) == te[1] \o Separator \o te[2] \o Separator \o te[3]

\* a slice one character too long
TruncateOffByOne(s) == Take(s, MAX_CONTENT_LENGTH + 1)

Truncate(s) == Take(s, MAX_CONTENT_LENGTH)

TruncationNote(s) == StrLen(s) > MAX_CONTENT_LENGTH

\* the isinstance tests on news_content; in the str branch line 199 prints
\* the string before the return, and a UnicodeEncodeError of that print is
\* caught by feed's except ValueError, after which feed falls off its end
FeedResult(nc) ==
    IF nc.type = "dict" THEN Pair(SuccessState, nc)
    ELSE IF nc.type = "str"
         THEN IF PrintRaises(nc) THEN NoResult ELSE Pair(FailedState, nc)
    ELSE NoResult

\* a feed that builds two Website objects only
TwoFetched(te) == Len(te) = 2

\* the three Website constructions are over
AllFetched(te) == Len(te) = 3

\* ------------------------------------------------------ handler.py
\* a handler that does not compare the state
ShouldPersistAnyPair(r) == r.len = 2

\* if result and len(result) == 2, then state == "\n--- SUCCESSFULLY ..."
ShouldPersist(r) == r.len = 2 /\ r.state = SuccessState

NoFile == [state |-> "absent", nc |-> PyNone]
JsonDump(nc) == [state |-> "written", nc |-> nc]
PartialFile == [state |-> "partial", nc |-> PyNone]
FileOutcomes ==
    {"ok", "open fails", "dump fails", "open fails <U+D800>", "dump fails <U+D800>"}
FileErrorMsg(o) ==
    IF o \in {"open fails <U+D800>", "dump fails <U+D800>"} THEN "error <U+D800>" ELSE "error"

Document(now, nc) == [date |-> now, news |-> nc]

\* the sequences a collection can be left as when some of its documents are
\* deleted: every subsequence of it
RECURSIVE SubSeqs(_)
SubSeqs(coll) ==
    IF coll = <<>> THEN {<<>>}
    ELSE LET rest == SubSeqs(Tail(coll))
         IN  rest \cup {<<Head(coll)>> \o r : r \in rest}

\* a delete_one in place of delete_many
delete_first(coll) == IF coll = <<>> THEN coll ELSE Tail(coll)
\* a handler without its delete_many
delete_none(coll) == coll
delete_many(coll) == <<>>
insert_one(coll, doc) == Append(coll, doc)

\* ------------------------------------------------------ state
VARIABLES
    pc,           \* where the script is
    run,          \* which run of the script this is; datetime.now() of the run
    exitCode,     \* the process's exit status once pc = "exited"
    te,           \* the texts of the Website objects built so far
    mk,           \* the text handed to extract_news
    note,         \* the truncation note was printed
    generated,    \* what generate_content did
    result,       \* what feed returned
    feedReturned, \* feed has returned
    collection,   \* news_db.daily_news
    file,         \* docs/news.json
    events,       \* the external calls of this run, in order
    coll0,        \* the collection when the run started
    file0         \* the file when the run started

vars == <<pc, run, exitCode, te, mk, note, generated, result, feedReturned,
          collection, file, events, coll0, file0>>

Event(op, arg, out) == [op |-> op, arg |-> arg, out |-> out]
Outcome(ok, err) == IF ok THEN "ok" ELSE err

NotGenerated == [raises |-> FALSE, text |-> ""]

\* What the store and the file may hold before the first run.
OldNews == {PyDict(Categories, Categories, "news_old")}
OldDocs == {Document(0, n) : n \in OldNews}
RECURSIVE SeqsUpTo(_, _)
SeqsUpTo(S, n) ==
    IF n = 0 THEN {<<>>}
    ELSE SeqsUpTo(S, n - 1) \cup {Append(q, x) : q \in {r \in SeqsUpTo(S, n - 1) : Len(r) = n - 1}, x \in S}

Init ==
    /\ pc = "connect"
    /\ run = 1
    /\ exitCode = 0
    /\ te = <<>>
    /\ mk = <<>>
    /\ note = FALSE
    /\ generated = NotGenerated
    /\ result = NoResult
    /\ feedReturned = FALSE
    /\ collection \in SeqsUpTo(OldDocs, InitDocsMax)
    /\ file \in {NoFile} \cup {JsonDump(n) : n \in OldNews}
    /\ events = <<>>
    /\ coll0 = collection
    /\ file0 = file

\* handler.py 13-24: MongoClient, ping; any exception ends the process with
\* status 1: by exit(1), or by the traceback of the print at 23 when the
\* exception's message cannot be encoded
Connect(ok) ==
    /\ pc = "connect"
    /\ events' = Append(events, Event("ping", 0, Outcome(ok, "Exception")))
    /\ pc' = IF ok THEN "extractor" ELSE "exited"
    /\ exitCode' = IF ok THEN exitCode ELSE 1
    /\ UNCHANGED <<run, te, mk, note, generated, result, feedReturned,
                   collection, file, coll0, file0>>

\* handler.py 28: NewsExtractor() at module level, outside every try; an
\* exception of genai.Client ends the process with a traceback and status 1
NewExtractor(ok) ==
    /\ pc = "extractor"
    /\ events' = Append(events, Event("client", 0, Outcome(ok, "ValueError")))
    /\ pc' = IF ok THEN "fetch" ELSE "exited"
    /\ exitCode' = IF ok THEN exitCode ELSE 1
    /\ UNCHANGED <<run, te, mk, note, generated, result, feedReturned,
                   collection, file, coll0, file0>>

\* UpdatN.py 161-163: the next Website(url); an exception it lets through is
\* caught by feed's except clauses (206-210), which print its message: feed
\* then falls off its end (None), or, when that print raises, the exception
\* leaves feed and handler.py 29 and ends the process with status 1
Fetch(o) ==
    /\ pc = "fetch"
    /\ events' = Append(events, Event("get", Len(te), o.kind))
    /\ IF WebsiteRaises(o)
       THEN IF ExceptPrintRaises(o.msg)
            THEN /\ pc' = "exited"
                 /\ exitCode' = 1
                 /\ UNCHANGED <<feedReturned, result, te>>
            ELSE /\ pc' = "handle"
                 /\ feedReturned' = TRUE
                 /\ result' = NoResult
                 /\ UNCHANGED <<exitCode, te>>
       ELSE /\ te' = Append(te, WebsiteText(Len(te), o))
            /\ pc' = IF AllFetched(te') THEN "inspect" ELSE "fetch"
            /\ UNCHANGED <<exitCode, feedReturned, result>>
    /\ UNCHANGED <<run, mk, note, generated, collection, file, coll0, file0>>

\* UpdatN.py 170-175: a text holds the marker; print it, fall off the end
\* (a UnicodeEncodeError of that print is caught at 206 and its message, which
\* escapes the character, is printed: feed falls off its end all the same)
ShortCircuit ==
    /\ pc = "inspect"
    /\ AnyFailed(te)
    /\ pc' = "handle"
    /\ feedReturned' = TRUE
    /\ result' = NoResult
    /\ UNCHANGED <<run, exitCode, te, mk, note, generated, collection, file,
                   events, coll0, file0>>

\* UpdatN.py 176-185: combine, truncate, note, NewsExtractor(); its
\* ValueError is caught at 206 and printed at 207: feed falls off its end,
\* or the print raises and the process ends with status 1
Prepare(o) ==
    /\ pc = "inspect"
    /\ ~AnyFailed(te)
    /\ mk' = Truncate(CombinedText(te))
    /\ note' = TruncationNote(CombinedText(te))
    /\ events' = Append(events, Event("client", 1, Outcome(o = "ok", "ValueError")))
    /\ IF o = "ok"
       THEN /\ pc' = "generate"
            /\ UNCHANGED <<exitCode, feedReturned, result>>
       ELSE IF ExceptPrintRaises(o)
       THEN /\ pc' = "exited"
            /\ exitCode' = 1
            /\ UNCHANGED <<feedReturned, result>>
       ELSE /\ pc' = "handle"
            /\ feedReturned' = TRUE
            /\ result' = NoResult
            /\ UNCHANGED exitCode
    /\ UNCHANGED <<run, te, generated, collection, file, coll0, file0>>

\* UpdatN.py 186-204: extract_news(mk) and the pair feed makes of it
Generate(o) ==
    /\ pc = "generate"
    /\ events' = Append(events, Event("generate", 0, Outcome(~o.raises, "Exception")))
    /\ generated' = o
    /\ result' = FeedResult(extract_news(o))
    /\ feedReturned' = TRUE
    /\ pc' = "handle"
    /\ UNCHANGED <<run, exitCode, te, mk, note, collection, file, coll0, file0>>

\* handler.py 33-40, 61-68: persist on the success state only
Handle ==
    /\ pc = "handle"
    /\ pc' = IF ShouldPersist(result) THEN "file" ELSE "exited"
    /\ UNCHANGED <<run, exitCode, te, mk, note, generated, result, feedReturned,
                   collection, file, events, coll0, file0>>

\* handler.py 42-48: open truncates the file, json.dump fills it; an
\* exception is printed at 48 and the script goes on, unless that print
\* raises, which ends the process with status 1 before the store is touched
WriteFile(o) ==
    /\ pc = "file"
    /\ events' = Append(events, Event("open", 0, o))
    /\ file' = CASE o = "ok" -> JsonDump(result.nc)
                 [] o \in {"open fails", "open fails <U+D800>"} -> file
                 [] OTHER -> PartialFile
    /\ pc' = IF o # "ok" /\ ExceptPrintRaises(FileErrorMsg(o)) THEN "exited" ELSE "delete"
    /\ exitCode' = IF o # "ok" /\ ExceptPrintRaises(FileErrorMsg(o)) THEN 1 ELSE exitCode
    /\ UNCHANGED <<run, te, mk, note, generated, result, feedReturned,
                   collection, coll0, file0>>

\* handler.py 53: delete_many({}); its exception skips insert_one and is
\* printed at 57 (status 1 when that print raises).  The driver may raise
\* before the server deleted anything or after it deleted some or all of the
\* documents: left is what the collection then holds
DeleteMany(o, left) ==
    /\ pc = "delete"
    /\ events' = Append(events, Event("delete_many", 0, Outcome(o = "ok", "Exception")))
    /\ collection' = IF o = "ok" THEN delete_many(collection) ELSE left
    /\ pc' = IF o = "ok" THEN "insert" ELSE "exited"
    /\ exitCode' = IF o # "ok" /\ ExceptPrintRaises(o) THEN 1 ELSE exitCode
    /\ UNCHANGED <<run, te, mk, note, generated, result, feedReturned,
                   file, coll0, file0>>

\* handler.py 54-57: insert_one({"date": now, "news": nc}); its exception is
\* printed at 57 (status 1 when that print raises).  The driver may raise
\* before the server stored the document or after it (stored)
InsertOne(o, stored) ==
    /\ pc = "insert"
    /\ events' = Append(events, Event("insert_one", 0, Outcome(o = "ok", "Exception")))
    /\ collection' = IF o = "ok" \/ stored
                     THEN insert_one(collection, Document(run, result.nc))
                     ELSE collection
    /\ pc' = "exited"
    /\ exitCode' = IF o # "ok" /\ ExceptPrintRaises(o) THEN 1 ELSE exitCode
    /\ UNCHANGED <<run, te, mk, note, generated, result, feedReturned,
                   file, coll0, file0>>

\* the scheduler starts the script again
NextRun ==
    /\ pc = "exited"
    /\ run < MaxRuns
    /\ pc' = "connect"
    /\ run' = run + 1
    /\ exitCode' = 0
    /\ te' = <<>>
    /\ mk' = <<>>
    /\ note' = FALSE
    /\ generated' = NotGenerated
    /\ result' = NoResult
    /\ feedReturned' = FALSE
    /\ events' = <<>>
    /\ coll0' = collection
    /\ file0' = file
    /\ UNCHANGED <<collection, file>>

Next ==
    \/ \E ok \in BOOLEAN : Connect(ok)
    \/ \E ok \in BOOLEAN : NewExtractor(ok)
    \/ \E o \in FetchOutcomes : Fetch(o)
    \/ ShortCircuit
    \/ \E o \in CallOutcomes : Prepare(o)
    \/ \E o \in GenerateOutcomes : Generate(o)
    \/ Handle
    \/ \E o \in FileOutcomes : WriteFile(o)
    \/ \E o \in CallOutcomes : \E left \in SubSeqs(collection) : DeleteMany(o, left)
    \/ \E o \in CallOutcomes : \E stored \in BOOLEAN : InsertOne(o, stored)
    \/ NextRun

Spec == Init /\ [][Next]_vars


\* ------------------------------------------------------ reading a run
Count(op) == Cardinality({i \in 1..Len(events) : events[i].op = op})
Pos(op, arg) == {i \in 1..Len(events) : events[i].op = op /\ events[i].arg = arg}
Did(op, arg, out) == \E i \in Pos(op, arg) : events[i].out = out

Succeeded == result.len = 2 /\ result.state = SuccessState
CombinedLen == StrLen(te[1]) + SepLen + StrLen(te[2]) + SepLen + StrLen(te[3])

\* character p of text1 + separator + text2 + separator + text3, by offsets
SourceCharAt(p) ==
    LET a == StrLen(te[1])
        b == a + SepLen
        c == b + StrLen(te[2])
        d == c + SepLen
    IN  IF p < a THEN CharAt(te[1], p)
        ELSE IF p < b THEN <<"sep", p - a>>
        ELSE IF p < c THEN CharAt(te[2], p - b)
        ELSE IF p < d THEN <<"sep", p - c>>
        ELSE CharAt(te[3], p - d)

\* the offsets where a source or a separator starts or ends, and the cap's
SamplePositions ==
    LET a == StrLen(te[1])
        b == a + SepLen
        c == b + StrLen(te[2])
        d == c + SepLen
    IN  {0, a - 1, a, b - 1, b, c - 1, c, d - 1, d, CombinedLen - 1,
         MAX_CONTENT_LENGTH - 1, MAX_CONTENT_LENGTH}

\* ------------------------------------------------------ claims

\* C1: once the three texts are there and one of them holds the failure
\* marker, generate_content is not called in the run, no second client is
\* built, and nothing is combined, truncated or noted.
C1_NoLLMOnFailedFetch ==
    (Len(te) = 3 /\ \E i \in 1..3 : ContainsMarker(te[i]))
        => /\ Count("generate") = 0
           /\ Pos("client", 1) = {}
           /\ generated = NotGenerated
           /\ mk = <<>>
           /\ ~note
           /\ pc \notin {"generate", "file", "delete", "insert"}

\* the third fetch alone failed, and feed has returned
C1_Witness ==
    /\ pc = "exited" /\ feedReturned /\ Len(te) = 3
    /\ Did("get", 2, "RequestException")
    /\ ~ContainsMarker(te[1]) /\ ~ContainsMarker(te[2]) /\ ContainsMarker(te[3])

\* C2: the text handed to the LLM call is the first min(L, 55000) characters
\* of text1 + separator + text2 + separator + text3, and the truncation note
\* is printed exactly when L > 55000.
C2_TruncatedPrefix ==
    (pc = "generate" \/ Count("generate") = 1)
        => /\ StrLen(mk) = Min(CombinedLen, MAX_CONTENT_LENGTH)
           /\ \A p \in SamplePositions :
                  (0 <= p /\ p < CombinedLen) =>
                      IF p < MAX_CONTENT_LENGTH
                      THEN p < StrLen(mk) /\ CharAt(mk, p) = SourceCharAt(p)
                      ELSE p >= StrLen(mk)
           /\ note <=> (CombinedLen > MAX_CONTENT_LENGTH)

\* the LLM was called with a combined text one character over the cap
C2_Witness ==
    /\ Count("generate") = 1
    /\ CombinedLen = MAX_CONTENT_LENGTH + 1
    /\ note

\* C3 (as claimed): a response that follows the schema gives the success
\* state with a mapping of all seven keys, each a list; and whenever feed
\* returns the success state its payload is such a mapping.
C3_SuccessIsCategorizedNews ==
    /\ (Count("generate") = 1 /\ ~generated.raises /\ generated.text \in SchemaTexts)
           => Succeeded
    /\ (feedReturned /\ Succeeded)
           => /\ result.nc.type = "dict"
              /\ result.nc.keys = Categories
              /\ result.nc.arrays = Categories

\* the response texts that are not valid JSON
NotJsonTexts == InvalidJsonTexts \cup {"deep_unclosed_arrays"}

\* C4 (as claimed): a response whose text is not valid JSON gives the failure
\* state with a string that holds the raw response text; never the success
\* state, never no result.
C4_InvalidJsonFails ==
    (Count("generate") = 1 /\ ~generated.raises /\ generated.text \in NotJsonTexts)
        => /\ feedReturned
           /\ result.len = 2
           /\ result.state = FailedState
           /\ result.nc.type = "str"
           /\ \E i \in 1..Len(result.nc.parts) : result.nc.parts[i] = generated.text

\* C5 (as claimed): when generate_content raises, feed still returns: the
\* failure state with a string that holds the exception's message; the
\* process goes on and ends with status 0.
C5_ApiErrorIsCaught ==
    (Count("generate") = 1 /\ generated.raises)
        => /\ feedReturned
           /\ result.len = 2
           /\ result.state = FailedState
           /\ result.nc.type = "str"
           /\ \E i \in 1..Len(result.nc.parts) : result.nc.parts[i] = generated.text
           /\ exitCode = 0

\* C6: a run whose delete_many and insert_one both return leaves exactly one
\* document in the collection, dated by the run and holding its payload,
\* whatever the collection held before.
C6_LatestOnly ==
    Did("insert_one", 0, "ok")
        => /\ Len(collection) = 1
           /\ collection[1] = Document(run, result.nc)
           /\ collection[1].news = JsonLoads(generated.text)

\* the second run stored the payload the first run had stored
C6_Witness ==
    /\ pc = "exited" /\ run = 2
    /\ Did("insert_one", 0, "ok")
    /\ Len(coll0) = 1 /\ coll0[1] = Document(1, result.nc)

\* C7 (as claimed): the process ends with a non-zero status, after the ping
\* and nothing else, when the ping fails; in every other run it ends with 0.
C7_ExitZeroUnlessPingFails ==
    pc = "exited"
        => IF Did("ping", 0, "ok")
           THEN exitCode = 0
           ELSE exitCode # 0 /\ Len(events) = 1

\* C8: when feed returns the failure state or nothing, the handler calls
\* neither open nor delete_many nor insert_one, and the collection and the
\* file are as they were when the run started.
C8_NoPersistenceWithoutSuccess ==
    (feedReturned /\ ~Succeeded)
        => /\ Count("open") = 0
           /\ Count("delete_many") = 0
           /\ Count("insert_one") = 0
           /\ collection = coll0
           /\ file = file0

\* feed returned the failure state over a store that held documents
C8_Witness ==
    /\ pc = "exited" /\ feedReturned
    /\ result.len = 2 /\ result.state = FailedState
    /\ coll0 # <<>> /\ file0 # NoFile

\* the order of the external calls that holds of every run: the ping first
\* and once, everything else after a successful ping; the GETs next to one
\* another, in argument order, none repeated; generate_content at most once
\* and after three GETs that built their Website; delete_many at most once
\* and after generate_content; insert_one at most once, right after a
\* delete_many that returned
CallOrder ==
    /\ events # <<>> => events[1].op = "ping"
    /\ Count("ping") <= 1
    /\ \A i \in 2..Len(events) : events[1].out = "ok"
    /\ \A i \in 1..Len(events) :
           events[i].op = "get"
               => /\ events[i].arg = Cardinality({j \in 1..(i - 1) : events[j].op = "get"})
                  /\ events[i].arg <= 2
                  /\ events[i].arg > 0
                         => events[i - 1].op = "get" /\ events[i - 1].out # "Exception"
    /\ Count("generate") <= 1
    /\ \A i \in 1..Len(events) :
           events[i].op = "generate"
               => /\ Cardinality({j \in 1..(i - 1) : events[j].op = "get"}) = 3
                  /\ \A j \in 1..(i - 1) : events[j].out # "Exception"
    /\ pc \in {"inspect", "generate"} => Count("get") = 3 /\ Len(te) = 3
    /\ Count("delete_many") <= 1
    /\ Count("insert_one") <= 1
    /\ \A i \in 1..Len(events) :
           events[i].op = "delete_many"
               => \E j \in 1..(i - 1) : events[j].op = "generate" /\ events[j].out = "ok"
    /\ \A i \in 1..Len(events) :
           events[i].op = "insert_one"
               => events[i - 1].op = "delete_many" /\ events[i - 1].out = "ok"

AllThreeClean == Len(te) = 3 /\ \A i \in 1..3 : ~ContainsMarker(te[i])

\* feed is over: it returned, or an exception left it and ended the process
FeedOver == feedReturned \/ (pc = "exited" /\ Did("client", 0, "ok"))

\* C9 (as claimed): CallOrder, and a run that gets to feed issues exactly
\* three GETs, and makes exactly one LLM call when the three fetches succeed
\* without the marker.
C9_EventOrderAsClaimed ==
    /\ CallOrder
    /\ FeedOver => Count("get") = 3
    /\ (FeedOver /\ AllThreeClean) => Count("generate") = 1

\* C9 (amended): CallOrder; a run that gets to feed issues three GETs unless
\* a Website construction raised something that is not a RequestException,
\* which ends the fetching (a RequestException does not); and the one LLM
\* call is made when the three texts are free of the marker and the
\* NewsExtractor built inside feed did not raise.
C9_EventOrder ==
    /\ CallOrder
    /\ FeedOver
           => \/ Count("get") = 3
              \/ \E i \in 1..Len(events) :
                     /\ events[i].op = "get" /\ events[i].out = "Exception"
                     /\ Count("get") = events[i].arg + 1
    /\ \A k \in 0..1 :
           (FeedOver /\ Did("get", k, "RequestException")) => Pos("get", k + 1) # {}
    /\ (FeedOver /\ AllThreeClean)
           => Count("generate") = (IF Did("client", 1, "ok") THEN 1 ELSE 0)

\* a run that went through every call: ping, client, three GETs, client,
\* generate, open, delete_many, insert_one
C9_Witness ==
    /\ pc = "exited"
    /\ Count("get") = 3
    /\ Did("generate", 0, "ok")
    /\ Did("delete_many", 0, "ok")
    /\ Did("insert_one", 0, "ok")

\* C10 (as claimed): a run over a collection of one snapshot ends with one
\* snapshot, the previous one or the new one; and after a successful run
\* whose insert_one returned, the file and the stored document hold the same
\* payload.
C10_AllOrNothingAsClaimed ==
    /\ (pc = "exited" /\ Len(coll0) = 1)
           => /\ Len(collection) = 1
              /\ collection[1] \in {coll0[1], Document(run, result.nc)}
    /\ (pc = "exited" /\ Succeeded /\ Did("insert_one", 0, "ok"))
           => /\ Len(collection) = 1
              /\ file = JsonDump(collection[1].news)

\* C10 (amended): a run over a collection of at most one snapshot (a store
\* an earlier run emptied included) leaves at most one document, the previous
\* snapshot or the new one; the previous one is gone only if delete_many was
\* called and the new one is there only if insert_one was called, whether
\* the call returned or raised; when delete_many raised, nothing is inserted;
\* and when both the file write and insert_one returned, the file and the
\* stored document hold the same payload.
C10_AtMostOneSnapshot ==
    /\ Len(coll0) <= 1
           => /\ Len(collection) <= 1
              /\ \A i \in 1..Len(collection) :
                     \/ coll0 # <<>> /\ collection[i] = coll0[1]
                     \/ collection[i] = Document(run, result.nc)
              /\ collection # coll0 => Count("delete_many") = 1
              /\ (collection # <<>> /\ collection # coll0)
                     => /\ Count("insert_one") = 1
                        /\ Succeeded
                        /\ collection = <<Document(run, result.nc)>>
              /\ Did("delete_many", 0, "Exception")
                     => collection \in {coll0, <<>>} /\ Count("insert_one") = 0
    /\ (Did("open", 0, "ok") /\ Did("insert_one", 0, "ok"))
           => /\ Len(collection) = 1
              /\ file = JsonDump(collection[1].news)

\* the snapshot was deleted and insert_one raised: the store is empty
C10_Witness ==
    /\ pc = "exited"
    /\ Len(coll0) = 1
    /\ Did("delete_many", 0, "ok")
    /\ Did("insert_one", 0, "Exception")
    /\ collection = <<>>

====
